---- MODULE Spec2Model ----
(***************************************************************************)
(* Model of the xtteamSite backend: the SQLite persistence layer           *)
(* (src/db.js) and the session-authenticated REST handlers                 *)
(* (src/server.js).  Every handler is split at its await points: one       *)
(* action per database statement, executed atomically by the store, with   *)
(* the handler code that follows it up to the next await.                  *)
(*                                                                         *)
(* JavaScript strings are sequences of one-character strings, so that      *)
(* length tests, trim and the e-mail regular expression are computed.      *)
(* A JavaScript value is a record [t, s]: t is its type tag, s its text.   *)
(***************************************************************************)
EXTENDS Bags, FiniteSets, Integers, Sequences, TLC

VARIABLES users, achievements, user_achievements, sessions, pc, req, loc,
          resp, nreq, seed, input, output

vars == <<users, achievements, user_achievements, sessions, pc, req, loc,
          resp, nreq, seed, input, output>>

\* the store and the request handling
server == <<users, achievements, user_achievements, sessions, pc, req, loc,
            resp, nreq>>

(***************************************************************************)
(* Bounds of the model.                                                    *)
(***************************************************************************)
MaxRequests == 3

MaxBoots == 2
MaxCallers == 3

Procs == {"p1", "p2"}

Sessions == {"s1", "s2"}

(***************************************************************************)
(* JavaScript values.                                                      *)
(***************************************************************************)
Undefined == [t |-> "undefined", s |-> <<>>]

Null == [t |-> "null", s |-> <<>>]

Str(chars) == [t |-> "string", s |-> chars]

\* !v for a value that is undefined, null or a string
Falsy(v) == v.t # "string" \/ v.s = <<>>

IsSpace(c) == c \in {" ", "\t", "\n"}

RECURSIVE TrimStart(_)
TrimStart(cs) ==
    IF cs # <<>> /\ IsSpace(Head(cs)) THEN TrimStart(Tail(cs)) ELSE cs

RECURSIVE TrimEnd(_)
TrimEnd(cs) ==
    IF cs # <<>> /\ IsSpace(cs[Len(cs)])
    THEN TrimEnd(SubSeq(cs, 1, Len(cs) - 1))
    ELSE cs

\* String.prototype.trim
Trim(cs) == TrimEnd(TrimStart(cs))

\* one or more characters of the class [^\s@]
NoSpaceAt(cs) ==
    /\ cs # <<>>
    /\ \A i \in 1..Len(cs) : ~IsSpace(cs[i]) /\ cs[i] # "@"

\* /^[^\s@]+@[^\s@]+\.[^\s@]+$/.test(cs)
emailRegexTest(cs) ==
    \E i \in 1..Len(cs) : \E j \in 1..Len(cs) :
        /\ i < j
        /\ cs[i] = "@"
        /\ cs[j] = "."
        /\ NoSpaceAt(SubSeq(cs, 1, i - 1))
        /\ NoSpaceAt(SubSeq(cs, i + 1, j - 1))
        /\ NoSpaceAt(SubSeq(cs, j + 1, Len(cs)))

\* needle occurs in hay as a contiguous run (String.prototype.includes);
\* driver messages are sequences of tokens
Includes(hay, needle) ==
    \E i \in 1..(Len(hay) - Len(needle) + 1) :
        SubSeq(hay, i, i + Len(needle) - 1) = needle

(***************************************************************************)
(* Texts used as inputs.                                                   *)
(***************************************************************************)
Alice == <<"a", "l", "i", "c", "e">>

Bob == <<"b", "o", "b">>

ShortName == <<"a", "b">>

Secret == <<"s", "e", "c", "r", "e", "t", "1">>

Wrong == <<"w", "r", "o", "n", "g", "1", "2">>

ShortPass == <<"a", "b", "c">>

MailPadded == <<" ", "a", "@", "b", ".", "c", " ">>

MailBad == <<"a", "@", "b">>

Blank == <<" ", " ">>

WithRegistration == "With Registration!"

(***************************************************************************)
(* The store: db.js.                                                       *)
(***************************************************************************)
NoError == [isErr |-> FALSE, message |-> <<>>]

\* the driver's error for a violated UNIQUE or PRIMARY KEY constraint
SqliteConstraint(columns) ==
    [isErr |-> TRUE,
     message |-> <<"SQLITE_CONSTRAINT", ": ", "UNIQUE constraint failed", ": ">>
                 \o columns]

\* the driver's error for a statement the storage could not run
SqliteIoErr ==
    [isErr |-> TRUE, message |-> <<"SQLITE_IOERR", ": ", "disk I/O error">>]

\* the driver's error for a statement on a table that does not exist
SqliteNoTable(tableName) ==
    [isErr |-> TRUE,
     message |-> <<"SQLITE_ERROR", ": ", "no such table", ": ", tableName>>]

UsersUsername == <<"users", ".", "username">>

UsersEmail == <<"users", ".", "email">>

UserAchievementsKey ==
    <<"user_achievements", ".", "user_id", ", ",
      "user_achievements", ".", "achievement_id">>

BcryptCost == 10

\* bcrypt.hash(password, cost): a one-way digest tagged with its cost
BcryptHash(password, cost) == <<"$2a$", cost>> \o password

\* a comparison that accepts every password
BcryptCompare_Always(password, hash) == TRUE

\* bcrypt.compare(password, hash): re-hash with the cost stored in the hash
BcryptCompare(password, hash) == hash = BcryptHash(password, hash[2])

NoUser == [id |-> 0, username |-> <<>>, password_hash |-> <<>>, email |-> Null]

NoAchievement ==
    [id |-> 0, name |-> "", description |-> "", icon_path |-> "",
     category |-> ""]

\* the fixed catalog of initAchievements, in insertion order
Catalog ==
    << [name |-> "Team Introduction",
        description |-> "Visited the 'About Us' section",
        icon_path |-> "team-icon", category |-> "about"],
       [name |-> "First News",
        description |-> "Scrolled to the first news article",
        icon_path |-> "news-icon", category |-> "news"],
       [name |-> "Game Observer",
        description |-> "Visited games section",
        icon_path |-> "games-icon", category |-> "games"],
       [name |-> "GameR",
        description |-> "Clicked download button on all available games",
        icon_path |-> "gamer-icon", category |-> "games"],
       [name |-> WithRegistration,
        description |-> "Successfully registered an account",
        icon_path |-> "registration-icon", category |-> "account"],
       [name |-> "Curious",
        description |-> "Hovered mouse over all tiles on homepage",
        icon_path |-> "curious-icon", category |-> "main"],
       [name |-> "Letter to Developer",
        description |-> "Sent an email to a developer",
        icon_path |-> "mail-icon", category |-> "contact"],
       [name |-> "YouTube Subscriber",
        description |-> "Visited developer's YouTube channel",
        icon_path |-> "youtube-icon", category |-> "contact"] >>

\* INSERT INTO achievements: the row gets the next AUTOINCREMENT id
addAchievement(tbl, a) ==
    Append(tbl, [id |-> Len(tbl) + 1, name |-> a.name,
                 description |-> a.description, icon_path |-> a.icon_path,
                 category |-> a.category])

RECURSIVE SeedFrom(_, _)
SeedFrom(tbl, i) ==
    IF i > Len(Catalog) THEN tbl
    ELSE SeedFrom(addAchievement(tbl, Catalog[i]), i + 1)

\* a seeding that does not look at the row count
SeedNeeded_Always(tbl) == TRUE

\* !row || row.count === 0 for the row of SELECT COUNT(*) FROM achievements
SeedNeeded(tbl) == Len(tbl) = 0

\* initAchievements: the catalog is inserted only into an empty table
initAchievements(tbl) == IF SeedNeeded(tbl) THEN SeedFrom(tbl, 1) ELSE tbl

\* a lookup that never finds the row
getUserByUsername_None(tbl, username) == NoUser

\* SELECT * FROM users WHERE username = ? (db.get: first row or none)
getUserByUsername(tbl, username) ==
    LET hits == SelectSeq(tbl, LAMBDA r : r.username = username)
    IN  IF hits = <<>> THEN NoUser ELSE Head(hits)

\* a users table whose email column is not UNIQUE
UsersConstraint_UsernameOnly(tbl, username, email) ==
    IF \E i \in 1..Len(tbl) : tbl[i].username = username
    THEN SqliteConstraint(UsersUsername)
    ELSE NoError

\* the UNIQUE constraints of the users table, in declaration order;
\* a NULL email never conflicts
UsersConstraint(tbl, username, email) ==
    IF \E i \in 1..Len(tbl) : tbl[i].username = username
    THEN SqliteConstraint(UsersUsername)
    ELSE IF email.t # "null" /\ \E i \in 1..Len(tbl) : tbl[i].email = email
    THEN SqliteConstraint(UsersEmail)
    ELSE NoError

\* an insert that reports the rowid of the row before the new one
InsertUser_LastIdBefore(tbl, username, passwordHash, email) ==
    LET err == UsersConstraint(tbl, username, email)
    IN  IF err.isErr
        THEN [err |-> err, table |-> tbl, lastID |-> 0]
        ELSE [err |-> NoError,
              table |-> Append(tbl, [id |-> Len(tbl) + 1,
                                     username |-> username,
                                     password_hash |-> passwordHash,
                                     email |-> email]),
              lastID |-> Len(tbl)]

\* INSERT INTO users (username, password_hash, email)
InsertUser(tbl, username, passwordHash, email) ==
    LET err == UsersConstraint(tbl, username, email)
    IN  IF err.isErr
        THEN [err |-> err, table |-> tbl, lastID |-> 0]
        ELSE [err |-> NoError,
              table |-> Append(tbl, [id |-> Len(tbl) + 1,
                                     username |-> username,
                                     password_hash |-> passwordHash,
                                     email |-> email]),
              lastID |-> Len(tbl) + 1]

\* createUser: hash the password, then insert
createUser(tbl, username, password, email) ==
    InsertUser(tbl, username, BcryptHash(password, BcryptCost), email)

\* a lookup that falls back to the first achievement when the name is unknown
SelectAchievementByName_Fallback(tbl, name) ==
    LET hits == SelectSeq(tbl, LAMBDA r : r.name = name)
    IN  IF hits # <<>> THEN Head(hits)
        ELSE IF tbl # <<>> THEN Head(tbl) ELSE NoAchievement

\* SELECT id FROM achievements WHERE name = ? (first row or none)
SelectAchievementByName(tbl, name) ==
    LET hits == SelectSeq(tbl, LAMBDA r : r.name = name)
    IN  IF hits = <<>> THEN NoAchievement ELSE Head(hits)

UaRow(userId, achievementId) ==
    [user_id |-> userId, achievement_id |-> achievementId]

\* a check that never sees the row
SelectUserAchievement_Never(tbl, userId, achievementId) == FALSE

\* SELECT 1 FROM user_achievements WHERE user_id = ? AND achievement_id = ?
SelectUserAchievement(tbl, userId, achievementId) ==
    BagIn(UaRow(userId, achievementId), tbl)

\* an insert into a user_achievements table without its primary key
InsertUserAchievement_NoKey(tbl, userId, achievementId) ==
    [err |-> NoError,
     table |-> tbl (+) SetToBag({UaRow(userId, achievementId)})]

\* an insert that first deletes the rows of every other pair
InsertUserAchievement_Replacing(tbl, userId, achievementId) ==
    IF BagIn(UaRow(userId, achievementId), tbl)
    THEN [err |-> SqliteConstraint(UserAchievementsKey), table |-> tbl]
    ELSE [err |-> NoError, table |-> SetToBag({UaRow(userId, achievementId)})]

\* an insert that writes the row for the first user as well
InsertUserAchievement_FirstUserToo(tbl, userId, achievementId) ==
    IF BagIn(UaRow(userId, achievementId), tbl)
    THEN [err |-> SqliteConstraint(UserAchievementsKey), table |-> tbl]
    ELSE [err |-> NoError,
          table |-> tbl (+) SetToBag({UaRow(userId, achievementId)}
                                     \cup ({UaRow(1, achievementId)}
                                           \ BagToSet(tbl)))]

\* an INSERT OR IGNORE: a row that is already there is no error
InsertUserAchievement_Ignoring(tbl, userId, achievementId) ==
    IF BagIn(UaRow(userId, achievementId), tbl)
    THEN [err |-> NoError, table |-> tbl]
    ELSE [err |-> NoError,
          table |-> tbl (+) SetToBag({UaRow(userId, achievementId)})]

\* INSERT INTO user_achievements, under PRIMARY KEY (user_id, achievement_id)
InsertUserAchievement(tbl, userId, achievementId) ==
    IF BagIn(UaRow(userId, achievementId), tbl)
    THEN [err |-> SqliteConstraint(UserAchievementsKey), table |-> tbl]
    ELSE [err |-> NoError,
          table |-> tbl (+) SetToBag({UaRow(userId, achievementId)})]

NoProfile == [id |-> 0, username |-> <<>>, email |-> Null]

\* a query that selects every column of the row
getUserById_AllColumns(tbl, userId) ==
    LET hits == SelectSeq(tbl, LAMBDA r : r.id = userId)
    IN  IF hits = <<>> THEN NoUser ELSE Head(hits)

\* SELECT id, username, email, created_at FROM users WHERE id = ?
\* (created_at is not kept)
getUserById(tbl, userId) ==
    LET hits == SelectSeq(tbl, LAMBDA r : r.id = userId)
    IN  IF hits = <<>> THEN NoProfile
        ELSE [id |-> Head(hits).id, username |-> Head(hits).username,
              email |-> Head(hits).email]

\* the bytes of a category text
CategoryBytes(category) ==
    CASE category = "about"   -> <<97, 98, 111, 117, 116>>
      [] category = "account" -> <<97, 99, 99, 111, 117, 110, 116>>
      [] category = "contact" -> <<99, 111, 110, 116, 97, 99, 116>>
      [] category = "games"   -> <<103, 97, 109, 101, 115>>
      [] category = "main"    -> <<109, 97, 105, 110>>
      [] category = "news"    -> <<110, 101, 119, 115>>
      [] OTHER                -> <<>>

\* the BINARY collation: memcmp of the common prefix, then the shorter first
RECURSIVE BytesLess(_, _)
BytesLess(a, b) ==
    IF b = <<>> THEN FALSE
    ELSE IF a = <<>> THEN TRUE
    ELSE IF Head(a) # Head(b) THEN Head(a) < Head(b)
    ELSE BytesLess(Tail(a), Tail(b))

\* row a sorts before row b under ORDER BY category, id
RowBefore(a, b) ==
    \/ BytesLess(CategoryBytes(a.category), CategoryBytes(b.category))
    \/ a.category = b.category /\ a.id < b.id

\* row r put into its place in a sorted sequence, behind its equals
InsertRow(sorted, r) ==
    LET k == Cardinality({i \in 1..Len(sorted) : ~RowBefore(r, sorted[i])})
    IN  SubSeq(sorted, 1, k) \o <<r>> \o SubSeq(sorted, k + 1, Len(sorted))

RECURSIVE SortRows(_)
SortRows(rows) ==
    IF rows = <<>> THEN <<>>
    ELSE InsertRow(SortRows(SubSeq(rows, 1, Len(rows) - 1)), rows[Len(rows)])

\* an ordering by id alone
OrderByCategoryId_IdOnly(rows) ==
    SortRows([i \in 1..Len(rows) |-> [rows[i] EXCEPT !.category = ""]])

\* ORDER BY category, id
OrderByCategoryId(rows) == SortRows(rows)

\* a query that returns the first achievement of each category only
getAllAchievements_PerCategory(tbl) ==
    LET rows == OrderByCategoryId(tbl)
    IN  SelectSeq(rows, LAMBDA r :
            \A i \in 1..Len(rows) :
                rows[i].category = r.category => rows[i].id >= r.id)

\* SELECT * FROM achievements ORDER BY category, id
getAllAchievements(tbl) == OrderByCategoryId(tbl)

\* an achievement with its unlocked column, as the JSON text of the value
Entry(a, unlocked) ==
    [id |-> a.id, name |-> a.name, description |-> a.description,
     icon_path |-> a.icon_path, category |-> a.category,
     unlocked |-> unlocked]

\* a join condition without ua.user_id = ?
JoinMatches_AnyUser(tbl, userId, achievementId) ==
    Cardinality({r \in BagToSet(tbl) : r.achievement_id = achievementId})

\* the user_achievements rows that meet
\* ON a.id = ua.achievement_id AND ua.user_id = ?
JoinMatches(tbl, userId, achievementId) ==
    CopiesIn(UaRow(userId, achievementId), tbl)

\* achievements a LEFT JOIN user_achievements ua, with
\* CASE WHEN ua.user_id IS NOT NULL THEN 1 ELSE 0 END as unlocked:
\* one row for each matching ua row, one row with 0 if there is none
RECURSIVE LeftJoin(_, _, _)
LeftJoin(rows, tbl, userId) ==
    IF rows = <<>> THEN <<>>
    ELSE LET a == Head(rows)
             n == JoinMatches(tbl, userId, a.id)
         IN  (IF n = 0 THEN <<Entry(a, "0")>>
              ELSE [i \in 1..n |-> Entry(a, "1")])
             \o LeftJoin(Tail(rows), tbl, userId)

\* db.getUserAchievements: the join, ORDER BY a.category, a.id
getUserAchievements(tbl, uaTbl, userId) ==
    OrderByCategoryId(LeftJoin(tbl, uaTbl, userId))

\* allAchievements.map(a => ({...a, unlocked: false}))
WithUnlockedFalse(rows) == [i \in 1..Len(rows) |-> Entry(rows[i], "false")]

(***************************************************************************)
(* Requests, handler locals and responses: server.js.                      *)
(***************************************************************************)
NoSession == [userId |-> 0, username |-> <<>>]

NoReq ==
    [kind |-> "none", sid |-> "none", username |-> Undefined,
     password |-> Undefined, achievementName |-> ""]

\* session: the request's copy of its session (req.session); dirty: it was
\* assigned to; userId, cleanEmail, achievementName, achievementId: the
\* handler's and unlockAchievement's variables; taken: the username was
\* stored when the request arrived; blank: the request's e-mail was absent,
\* empty or only whitespace; held: the pair was unlocked when
\* unlockAchievement was called; achievements: the rows the list handler
\* got; rows: how many user_achievements rows were stored when it got them
NoLoc ==
    [session |-> NoSession, dirty |-> FALSE, userId |-> 0,
     cleanEmail |-> Null, achievementName |-> "", achievementId |-> 0,
     taken |-> FALSE, blank |-> FALSE, held |-> FALSE,
     achievements |-> <<>>, rows |-> 0]

NoUserInfo == [id |-> 0, username |-> <<>>]

\* unlock: how the unlockAchievement promise of the request settled;
\* achievementId and held: the id that call found and whether the pair was
\* unlocked when it was called; known: the username of a refused login was
\* stored; user: of a logout, the user its session identified (the handler
\* logs the name); authenticated, email: of the /api/me answer (email also of the
\* user of the achievement list); achievements: the list sent; rows: how
\* many user_achievements rows were stored when the list was read; details:
\* the details text of a health answer; userRow: the user of the achievement
\* list, as getUserById returned it; bound: the session of a refused login
\* identified a user when the login was refused
NoResp ==
    [kind |-> "none", status |-> 0, success |-> FALSE, error |-> "",
     message |-> "", user |-> NoUserInfo, unlock |-> "none",
     achievementId |-> 0, held |-> FALSE, known |-> FALSE,
     authenticated |-> FALSE, email |-> Undefined, achievements |-> <<>>,
     rows |-> 0, details |-> <<>>, userRow |-> NoProfile, bound |-> FALSE]

\* res.status(status).json({success: false, error})
ErrorResp(kind, status, error) ==
    [NoResp EXCEPT !.kind = kind, !.status = status, !.error = error]

NoBody == [username |-> Undefined, password |-> Undefined, email |-> Undefined]

\* the start-up seeding of the catalog has finished
SeedDone == [pc |-> "done", next |-> 0, boots |-> 1]

\* the values register and login accept in a request body
RegisterBodies ==
    [username : {Str(Alice), Str(Bob)}, password : {Str(Secret)},
     email : {Undefined, Str(<<>>), Str(Blank), Str(MailPadded)}]
    \cup
    { [username |-> Str(ShortName), password |-> Undefined, email |-> Undefined],
      [username |-> Str(Alice), password |-> Str(ShortPass), email |-> Undefined],
      [username |-> Undefined, password |-> Str(Secret), email |-> Undefined],
      [username |-> Str(Bob), password |-> Str(Secret), email |-> Str(MailBad)] }

LoginBodies ==
    [username : {Str(Alice), Str(Bob)}, password : {Str(Secret), Str(Wrong)}]
    \cup { [username |-> Str(Alice), password |-> Undefined] }

\* achievement names sent to unlock; "" stands for a missing or empty name
UnlockNames == {WithRegistration, "Curious", "Nonexistent Name", ""}

\* a response under resave: true: the request's session is stored whether
\* or not the handler assigned to it
Respond_Resave(p, r) ==
    /\ resp' = [resp EXCEPT ![p] = r]
    /\ sessions' = IF req[p].sid \in Sessions
                   THEN [sessions EXCEPT ![req[p].sid] = loc[p].session]
                   ELSE sessions
    /\ pc' = [pc EXCEPT ![p] = "idle"]
    /\ req' = [req EXCEPT ![p] = NoReq]
    /\ loc' = [loc EXCEPT ![p] = NoLoc]

\* the handler of process p sends response r: express-session stores the
\* request's session if the handler assigned to it
Respond(p, r) ==
    /\ resp' = [resp EXCEPT ![p] = r]
    /\ sessions' = IF loc[p].dirty
                   THEN [sessions EXCEPT ![req[p].sid] = loc[p].session]
                   ELSE sessions
    /\ pc' = [pc EXCEPT ![p] = "idle"]
    /\ req' = [req EXCEPT ![p] = NoReq]
    /\ loc' = [loc EXCEPT ![p] = NoLoc]

\* an e-mail field that is absent, empty or only whitespace
IsBlankEmail(email) ==
    Falsy(email) \/ \A i \in 1..Len(email.s) : IsSpace(email.s[i])

\* a users row with this username is stored
Stored(username) == \E i \in 1..Len(users) : users[i].username = username

\* the user holds a user_achievements row for the achievement of this name
Holds(userId, name) ==
    \E i \in 1..Len(achievements) :
        /\ achievements[i].name = name
        /\ CopiesIn(UaRow(userId, achievements[i].id), user_achievements) > 0

\* a request arrives at idle process p
Receive(p) == pc[p] = "idle" /\ nreq < MaxRequests /\ nreq' = nreq + 1

\* email && email.trim() !== ''
HasEmail(email) == ~Falsy(email) /\ Trim(email.s) # <<>>

\* a cleanEmail that starts as the empty string instead of null
CleanEmail_Empty(email) ==
    IF HasEmail(email) THEN Str(Trim(email.s)) ELSE Str(<<>>)

\* cleanEmail of the register handler: null unless an e-mail was given
CleanEmail(email) == IF HasEmail(email) THEN Str(Trim(email.s)) ELSE Null

\* a validation that tests the password's length before the username's
RegisterValidation_PasswordFirst(body) ==
    IF Falsy(body.username) \/ Falsy(body.password)
    THEN "Username and password are required"
    ELSE IF Len(body.password.s) < 6
    THEN "Password must be at least 6 characters"
    ELSE IF Len(body.username.s) < 3
    THEN "Username must be at least 3 characters"
    ELSE IF HasEmail(body.email) /\ ~emailRegexTest(Trim(body.email.s))
    THEN "Invalid email format"
    ELSE ""

\* the validation of the register handler: "" when the body passes
RegisterValidation(body) ==
    IF Falsy(body.username) \/ Falsy(body.password)
    THEN "Username and password are required"
    ELSE IF Len(body.username.s) < 3
    THEN "Username must be at least 3 characters"
    ELSE IF Len(body.password.s) < 6
    THEN "Password must be at least 6 characters"
    ELSE IF HasEmail(body.email) /\ ~emailRegexTest(Trim(body.email.s))
    THEN "Invalid email format"
    ELSE ""

\* the catch block of the register handler: the message sent for an error
RegisterCatchMessage(err) ==
    IF err.message # <<>> /\ Includes(err.message, <<"duplicate key">>)
    THEN IF Includes(err.message, <<"email">>)
         THEN "Email already registered"
         ELSE IF Includes(err.message, <<"username">>)
         THEN "Username already taken"
         ELSE "Internal server error"
    ELSE "Internal server error"

\* the response of the handler that awaited unlockAchievement, once the
\* promise settled: outcome is "true", "false" or "rejected" (with err)
UnlockSettled(p, outcome, err) ==
    LET call == [NoResp EXCEPT !.unlock = outcome,
                               !.achievementId = loc[p].achievementId,
                               !.held = loc[p].held]
    IN  IF req[p].kind = "register"
        THEN IF outcome = "rejected"
             THEN [call EXCEPT !.kind = "register", !.status = 500,
                               !.error = RegisterCatchMessage(err)]
             ELSE [call EXCEPT !.kind = "register", !.status = 200,
                               !.success = TRUE,
                               !.user = [id |-> loc[p].userId,
                                         username |-> req[p].username.s]]
        ELSE IF outcome = "rejected"
             THEN [call EXCEPT !.kind = "unlock", !.status = 500,
                               !.error = "Failed to unlock achievement"]
             ELSE [call EXCEPT !.kind = "unlock", !.status = 200,
                               !.success = (outcome = "true"),
                               !.message = IF outcome = "true"
                                           THEN "Achievement unlocked!"
                                           ELSE "Achievement already unlocked"]

(***************************************************************************)
(* POST /api/register                                                      *)
(***************************************************************************)
RegisterStart(p, s, body) ==
    /\ Receive(p)
    /\ IF RegisterValidation(body) # ""
       THEN Respond(p, ErrorResp("register", 400, RegisterValidation(body)))
       ELSE /\ pc' = [pc EXCEPT ![p] = "reg_getUser"]
            /\ req' = [req EXCEPT ![p] =
                         [kind |-> "register", sid |-> s,
                          username |-> body.username,
                          password |-> body.password,
                          achievementName |-> ""]]
            /\ loc' = [loc EXCEPT ![p] =
                         [NoLoc EXCEPT
                            !.session = sessions[s],
                            !.cleanEmail = CleanEmail(body.email),
                            !.blank = IsBlankEmail(body.email),
                            !.taken = Stored(body.username.s)]]
            /\ resp' = [resp EXCEPT ![p] = NoResp]
            /\ UNCHANGED sessions
    /\ UNCHANGED <<users, achievements, user_achievements>>
    /\ UNCHANGED <<seed, input, output>>

\* const existingUser = await db.getUserByUsername(username)
RegGetUser(p) ==
    /\ pc[p] = "reg_getUser"
    /\ IF getUserByUsername(users, req[p].username.s).id # 0
       THEN Respond(p, ErrorResp("register", 400, "Username already taken"))
       ELSE /\ pc' = [pc EXCEPT ![p] = "reg_createUser"]
            /\ UNCHANGED <<sessions, req, loc, resp>>
    /\ UNCHANGED <<users, achievements, user_achievements, nreq>>
    /\ UNCHANGED <<seed, input, output>>

\* const userId = await db.createUser(...); the session is assigned and
\* unlockAchievement(userId, "With Registration!") is called
RegCreateUser(p) ==
    /\ pc[p] = "reg_createUser"
    /\ LET r == createUser(users, req[p].username.s, req[p].password.s,
                           loc[p].cleanEmail)
       IN  IF r.err.isErr
           THEN /\ Respond(p, ErrorResp("register", 500,
                                        RegisterCatchMessage(r.err)))
                /\ UNCHANGED users
           ELSE /\ users' = r.table
                /\ loc' = [loc EXCEPT ![p] =
                             [@ EXCEPT
                                !.userId = r.lastID,
                                !.session = [userId |-> r.lastID,
                                             username |-> req[p].username.s],
                                !.dirty = TRUE,
                                !.achievementName = WithRegistration,
                                !.held = Holds(r.lastID, WithRegistration)]]
                /\ pc' = [pc EXCEPT ![p] = "ua_find"]
                /\ UNCHANGED <<sessions, req, resp>>
    /\ UNCHANGED <<achievements, user_achievements, nreq>>
    /\ UNCHANGED <<seed, input, output>>

(***************************************************************************)
(* db.unlockAchievement(userId, achievementName): three statements          *)
(***************************************************************************)
\* SELECT id FROM achievements WHERE name = ?
UaFind(p) ==
    /\ pc[p] = "ua_find"
    /\ LET a == SelectAchievementByName(achievements, loc[p].achievementName)
       IN  IF a.id = 0
           THEN Respond(p, UnlockSettled(p, "false", NoError))
           ELSE /\ loc' = [loc EXCEPT ![p].achievementId = a.id]
                /\ pc' = [pc EXCEPT ![p] = "ua_check"]
                /\ UNCHANGED <<sessions, req, resp>>
    /\ UNCHANGED <<users, achievements, user_achievements, nreq>>
    /\ UNCHANGED <<seed, input, output>>

\* SELECT 1 FROM user_achievements WHERE user_id = ? AND achievement_id = ?
UaCheck(p) ==
    /\ pc[p] = "ua_check"
    /\ IF SelectUserAchievement(user_achievements, loc[p].userId,
                                loc[p].achievementId)
       THEN Respond(p, UnlockSettled(p, "false", NoError))
       ELSE /\ pc' = [pc EXCEPT ![p] = "ua_insert"]
            /\ UNCHANGED <<sessions, req, loc, resp>>
    /\ UNCHANGED <<users, achievements, user_achievements, nreq>>
    /\ UNCHANGED <<seed, input, output>>

\* INSERT INTO user_achievements (user_id, achievement_id)
UaInsert(p) ==
    /\ pc[p] = "ua_insert"
    /\ LET r == InsertUserAchievement(user_achievements, loc[p].userId,
                                      loc[p].achievementId)
       IN  /\ user_achievements' = r.table
           /\ IF r.err.isErr
              THEN Respond(p, UnlockSettled(p, "rejected", r.err))
              ELSE Respond(p, UnlockSettled(p, "true", NoError))
    /\ UNCHANGED <<users, achievements, nreq>>
    /\ UNCHANGED <<seed, input, output>>

(***************************************************************************)
(* POST /api/unlock-achievement                                            *)
(***************************************************************************)
\* a test that takes every session for an authenticated one
NoUserId_Never(session) == FALSE

\* !userId for the userId of a session
NoUserId(session) == session.userId = 0

UnlockStart(p, s, name) ==
    /\ Receive(p)
    /\ IF NoUserId(sessions[s])
       THEN Respond(p, ErrorResp("unlock", 401, "Authentication required"))
       ELSE IF name = ""
       THEN Respond(p, ErrorResp("unlock", 400, "Achievement name is required"))
       ELSE /\ pc' = [pc EXCEPT ![p] = "ua_find"]
            /\ req' = [req EXCEPT ![p] =
                         [NoReq EXCEPT !.kind = "unlock", !.sid = s,
                                       !.achievementName = name]]
            /\ loc' = [loc EXCEPT ![p] =
                         [NoLoc EXCEPT
                            !.session = sessions[s],
                            !.userId = sessions[s].userId,
                            !.achievementName = name,
                            !.held = Holds(sessions[s].userId, name)]]
            /\ resp' = [resp EXCEPT ![p] = NoResp]
            /\ UNCHANGED sessions
    /\ UNCHANGED <<users, achievements, user_achievements>>
    /\ UNCHANGED <<seed, input, output>>

(***************************************************************************)
(* POST /api/login                                                         *)
(***************************************************************************)
\* a verification that lets an unknown username through
verifyUser_NoGuard(tbl, username, password) ==
    LET user == getUserByUsername(tbl, username)
    IN  IF user.id = 0 THEN TRUE
        ELSE BcryptCompare(password, user.password_hash)

\* db.verifyUser: false for an unknown user, else the bcrypt comparison
verifyUser(tbl, username, password) ==
    LET user == getUserByUsername(tbl, username)
    IN  IF user.id = 0 THEN FALSE
        ELSE BcryptCompare(password, user.password_hash)

LoginStart(p, s, body) ==
    /\ Receive(p)
    /\ IF Falsy(body.username) \/ Falsy(body.password)
       THEN Respond(p, ErrorResp("login", 400,
                                 "Username and password are required"))
       ELSE /\ pc' = [pc EXCEPT ![p] = "login_verify"]
            /\ req' = [req EXCEPT ![p] =
                         [NoReq EXCEPT !.kind = "login", !.sid = s,
                                       !.username = body.username,
                                       !.password = body.password]]
            /\ loc' = [loc EXCEPT ![p] = [NoLoc EXCEPT !.session = sessions[s]]]
            /\ resp' = [resp EXCEPT ![p] = NoResp]
            /\ UNCHANGED sessions
    /\ UNCHANGED <<users, achievements, user_achievements>>
    /\ UNCHANGED <<seed, input, output>>

\* const isValid = await db.verifyUser(username, password)
LoginVerify(p) ==
    /\ pc[p] = "login_verify"
    /\ IF ~verifyUser(users, req[p].username.s, req[p].password.s)
       THEN Respond(p, [ErrorResp("login", 401, "Invalid username or password")
                          EXCEPT !.known = Stored(req[p].username.s),
                                 !.bound = sessions[req[p].sid].userId # 0])
       ELSE /\ pc' = [pc EXCEPT ![p] = "login_getUser"]
            /\ UNCHANGED <<sessions, req, loc, resp>>
    /\ UNCHANGED <<users, achievements, user_achievements, nreq>>
    /\ UNCHANGED <<seed, input, output>>

\* const user = await db.getUserByUsername(username); the session is
\* assigned and the user is returned; reading user.id of no user throws
\* into the catch block
LoginGetUser(p) ==
    /\ pc[p] = "login_getUser"
    /\ LET user == getUserByUsername(users, req[p].username.s)
       IN  IF user.id = 0
           THEN /\ resp' = [resp EXCEPT ![p] =
                              ErrorResp("login", 500, "Internal server error")]
                /\ UNCHANGED sessions
           ELSE /\ resp' = [resp EXCEPT ![p] =
                              [NoResp EXCEPT
                                 !.kind = "login", !.status = 200,
                                 !.success = TRUE,
                                 !.user = [id |-> user.id,
                                           username |-> user.username]]]
                /\ sessions' = [sessions EXCEPT ![req[p].sid] =
                                  [userId |-> user.id,
                                   username |-> user.username]]
    /\ pc' = [pc EXCEPT ![p] = "idle"]
    /\ req' = [req EXCEPT ![p] = NoReq]
    /\ loc' = [loc EXCEPT ![p] = NoLoc]
    /\ UNCHANGED <<users, achievements, user_achievements, nreq>>
    /\ UNCHANGED <<seed, input, output>>

(***************************************************************************)
(* POST /api/logout                                                        *)
(***************************************************************************)
\* a logout that reports success whatever destroy reported
LogoutAnswer_Success(err) ==
    [NoResp EXCEPT !.kind = "logout", !.status = 200, !.success = TRUE]

\* the callback of req.session.destroy: 500 on an error, else success
LogoutAnswer(err) ==
    IF err THEN ErrorResp("logout", 500, "Logout failed")
    ELSE [NoResp EXCEPT !.kind = "logout", !.status = 200, !.success = TRUE]

\* req.session.destroy removes the session from the store and calls back;
\* a store that reports an error may or may not have removed the session
Logout(p, s, err) ==
    /\ Receive(p)
    /\ IF err
       THEN sessions' \in {sessions, [sessions EXCEPT ![s] = NoSession]}
       ELSE sessions' = [sessions EXCEPT ![s] = NoSession]
    /\ resp' = [resp EXCEPT ![p] =
                  [LogoutAnswer(err) EXCEPT
                     !.user = [id |-> sessions[s].userId,
                               username |-> sessions[s].username]]]
    /\ UNCHANGED <<users, achievements, user_achievements, pc, req, loc>>
    /\ UNCHANGED <<seed, input, output>>

(***************************************************************************)
(* GET /api/achievements                                                   *)
(***************************************************************************)
ListStart(p, s) ==
    /\ Receive(p)
    /\ pc' = [pc EXCEPT ![p] = IF NoUserId(sessions[s]) THEN "list_all"
                               ELSE "list_user"]
    /\ req' = [req EXCEPT ![p] = [NoReq EXCEPT !.kind = "achievements",
                                               !.sid = s]]
    /\ loc' = [loc EXCEPT ![p] = [NoLoc EXCEPT !.session = sessions[s],
                                               !.userId = sessions[s].userId]]
    /\ resp' = [resp EXCEPT ![p] = NoResp]
    /\ UNCHANGED <<users, achievements, user_achievements, sessions>>
    /\ UNCHANGED <<seed, input, output>>

\* const allAchievements = await db.getAllAchievements(), each entry sent
\* with unlocked: false and user: null
ListAll(p) ==
    /\ pc[p] = "list_all"
    /\ Respond(p, [NoResp EXCEPT
                     !.kind = "achievements", !.status = 200, !.success = TRUE,
                     !.achievements =
                         WithUnlockedFalse(getAllAchievements(achievements)),
                     !.rows = BagCardinality(user_achievements)])
    /\ UNCHANGED <<users, achievements, user_achievements, nreq>>
    /\ UNCHANGED <<seed, input, output>>

\* achievements = await db.getUserAchievements(userId)
ListUser(p) ==
    /\ pc[p] = "list_user"
    /\ pc' = [pc EXCEPT ![p] = "list_getUser"]
    /\ loc' = [loc EXCEPT
                 ![p].achievements =
                     getUserAchievements(achievements, user_achievements,
                                         loc[p].userId),
                 ![p].rows = BagCardinality(user_achievements)]
    /\ UNCHANGED <<users, achievements, user_achievements, sessions, req,
                   resp, nreq>>
    /\ UNCHANGED <<seed, input, output>>

\* user = await db.getUserById(userId); the list and the user are sent
ListGetUser(p) ==
    /\ pc[p] = "list_getUser"
    /\ LET user == getUserById(users, loc[p].userId)
       IN  Respond(p, [NoResp EXCEPT
                         !.kind = "achievements", !.status = 200,
                         !.success = TRUE,
                         !.achievements = loc[p].achievements,
                         !.rows = loc[p].rows,
                         !.user = [id |-> user.id, username |-> user.username],
                         !.email = IF user.id = 0 THEN Undefined
                                   ELSE user.email,
                         !.userRow = user])
    /\ UNCHANGED <<users, achievements, user_achievements, nreq>>
    /\ UNCHANGED <<seed, input, output>>

(***************************************************************************)
(* GET /api/me                                                             *)
(***************************************************************************)
\* res.json({authenticated: false})
NotAuthenticated == [NoResp EXCEPT !.kind = "me", !.status = 200]

MeStart(p, s) ==
    /\ Receive(p)
    /\ IF NoUserId(sessions[s])
       THEN Respond(p, NotAuthenticated)
       ELSE /\ pc' = [pc EXCEPT ![p] = "me_getUser"]
            /\ req' = [req EXCEPT ![p] = [NoReq EXCEPT !.kind = "me",
                                                       !.sid = s]]
            /\ loc' = [loc EXCEPT ![p] =
                         [NoLoc EXCEPT !.session = sessions[s],
                                       !.userId = sessions[s].userId]]
            /\ resp' = [resp EXCEPT ![p] = NoResp]
            /\ UNCHANGED sessions
    /\ UNCHANGED <<users, achievements, user_achievements>>
    /\ UNCHANGED <<seed, input, output>>

\* const user = await db.getUserById(userId): a session whose user is gone
\* is destroyed; else the user is sent with email: user.email || ''
MeGetUser(p) ==
    /\ pc[p] = "me_getUser"
    /\ LET user == getUserById(users, loc[p].userId)
       IN  IF user.id = 0
           THEN /\ resp' = [resp EXCEPT ![p] = NotAuthenticated]
                /\ sessions' = [sessions EXCEPT ![req[p].sid] = NoSession]
           ELSE /\ resp' = [resp EXCEPT ![p] =
                              [NoResp EXCEPT
                                 !.kind = "me", !.status = 200,
                                 !.authenticated = TRUE,
                                 !.user = [id |-> user.id,
                                           username |-> user.username],
                                 !.email = IF Falsy(user.email) THEN Str(<<>>)
                                           ELSE user.email]]
                /\ UNCHANGED sessions
    /\ pc' = [pc EXCEPT ![p] = "idle"]
    /\ req' = [req EXCEPT ![p] = NoReq]
    /\ loc' = [loc EXCEPT ![p] = NoLoc]
    /\ UNCHANGED <<users, achievements, user_achievements, nreq>>
    /\ UNCHANGED <<seed, input, output>>

(***************************************************************************)
(* The system                                                              *)
(***************************************************************************)
Init ==
    /\ users = <<>>
    /\ achievements = initAchievements(<<>>)
    /\ user_achievements = EmptyBag
    /\ sessions = [s \in Sessions |-> NoSession]
    /\ pc = [p \in Procs |-> "idle"]
    /\ req = [p \in Procs |-> NoReq]
    /\ loc = [p \in Procs |-> NoLoc]
    /\ resp = [p \in Procs |-> NoResp]
    /\ nreq = 0
    /\ seed = SeedDone
    /\ input = NoBody
    /\ output = "pending"

Next ==
    \/ \E p \in Procs, s \in Sessions, body \in RegisterBodies :
           RegisterStart(p, s, body)
    \/ \E p \in Procs : RegGetUser(p)
    \/ \E p \in Procs : RegCreateUser(p)
    \/ \E p \in Procs : UaFind(p)
    \/ \E p \in Procs : UaCheck(p)
    \/ \E p \in Procs : UaInsert(p)
    \/ \E p \in Procs, s \in Sessions, name \in UnlockNames :
           UnlockStart(p, s, name)
    \/ \E p \in Procs, s \in Sessions, body \in LoginBodies :
           LoginStart(p, s, body)
    \/ \E p \in Procs : LoginVerify(p)
    \/ \E p \in Procs : LoginGetUser(p)
    \/ \E p \in Procs, s \in Sessions, err \in BOOLEAN : Logout(p, s, err)
    \/ \E p \in Procs, s \in Sessions : ListStart(p, s)
    \/ \E p \in Procs : ListAll(p)
    \/ \E p \in Procs : ListUser(p)
    \/ \E p \in Procs : ListGetUser(p)
    \/ \E p \in Procs, s \in Sessions : MeStart(p, s)
    \/ \E p \in Procs : MeGetUser(p)

Spec == Init /\ [][Next]_vars

(***************************************************************************)
(* Start-up: the server serves registrations while initAchievements, run   *)
(* from a timer after the tables are created, counts the achievements and  *)
(* inserts the catalog one row at a time; the process may be started again *)
(* on the same database file once it is idle.                              *)
(***************************************************************************)
\* SELECT COUNT(*) as count FROM achievements
SeedCount ==
    /\ seed.pc = "count"
    /\ seed' = IF SeedNeeded(achievements)
               THEN [seed EXCEPT !.pc = "insert", !.next = 1]
               ELSE [seed EXCEPT !.pc = "done", !.next = 0]
    /\ UNCHANGED <<server, input, output>>

\* await this.addAchievement(achievement), for the next catalog entry
SeedInsert ==
    /\ seed.pc = "insert"
    /\ achievements' = addAchievement(achievements, Catalog[seed.next])
    /\ seed' = IF seed.next = Len(Catalog)
               THEN [seed EXCEPT !.pc = "done", !.next = 0]
               ELSE [seed EXCEPT !.next = seed.next + 1]
    /\ UNCHANGED <<users, user_achievements, sessions, pc, req, loc, resp,
                   nreq, input, output>>

\* the process is started again: the database file is kept, the sessions
\* in memory are lost, and initTables schedules the seeding
Restart ==
    /\ seed.pc = "done"
    /\ seed.boots < MaxBoots
    /\ \A p \in Procs : pc[p] = "idle"
    /\ seed' = [pc |-> "count", next |-> 0, boots |-> seed.boots + 1]
    /\ sessions' = [s \in Sessions |-> NoSession]
    /\ UNCHANGED <<users, achievements, user_achievements, pc, req, loc, resp,
                   nreq, input, output>>

InitBoot ==
    /\ users = <<>>
    /\ achievements = <<>>
    /\ user_achievements = EmptyBag
    /\ sessions = [s \in Sessions |-> NoSession]
    /\ pc = [p \in Procs |-> "idle"]
    /\ req = [p \in Procs |-> NoReq]
    /\ loc = [p \in Procs |-> NoLoc]
    /\ resp = [p \in Procs |-> NoResp]
    /\ nreq = 0
    /\ seed = [pc |-> "count", next |-> 0, boots |-> 1]
    /\ input = NoBody
    /\ output = "pending"

NextBoot ==
    \/ SeedCount
    \/ SeedInsert
    \/ Restart
    \/ \E p \in Procs, s \in Sessions, body \in RegisterBodies :
           RegisterStart(p, s, body)
    \/ \E p \in Procs : RegGetUser(p)
    \/ \E p \in Procs : RegCreateUser(p)
    \/ \E p \in Procs : UaFind(p)
    \/ \E p \in Procs : UaCheck(p)
    \/ \E p \in Procs : UaInsert(p)

SpecBoot == InitBoot /\ [][NextBoot]_vars

(***************************************************************************)
(* The register validation on its own: every combination of a missing,     *)
(* empty, short and valid username and password with each kind of e-mail.  *)
(***************************************************************************)
ValidationBodies ==
    [username : {Undefined, Str(<<>>), Str(ShortName), Str(Alice)},
     password : {Undefined, Str(<<>>), Str(ShortPass), Str(Secret)},
     email : {Undefined, Str(<<>>), Str(Blank), Str(MailPadded), Str(MailBad)}]

InitValidate ==
    /\ users = <<>>
    /\ achievements = initAchievements(<<>>)
    /\ user_achievements = EmptyBag
    /\ sessions = [s \in Sessions |-> NoSession]
    /\ pc = [p \in Procs |-> "idle"]
    /\ req = [p \in Procs |-> NoReq]
    /\ loc = [p \in Procs |-> NoLoc]
    /\ resp = [p \in Procs |-> NoResp]
    /\ nreq = 0
    /\ seed = SeedDone
    /\ input \in ValidationBodies
    /\ output = "pending"

\* the register handler validates the body: the error it answers, or "ok"
Validate ==
    /\ output = "pending"
    /\ output' = IF RegisterValidation(input) = "" THEN "ok"
                 ELSE RegisterValidation(input)
    /\ UNCHANGED <<server, seed, input>>

NextValidate == Validate

SpecValidate == InitValidate /\ [][NextValidate]_vars

(***************************************************************************)
(* The two list queries on their own: every catalog prefix the seeding     *)
(* passes through, with every set of unlocks of two users for the first    *)
(* and the fifth achievement that are stored by then.                      *)
(***************************************************************************)
OrderUsers ==
    createUser(createUser(<<>>, Alice, Secret, Null).table,
               Bob, Secret, Null).table

OrderTables == {SubSeq(SeedFrom(<<>>, 1), 1, n) : n \in 0..Len(Catalog)}

OrderUnlocks(tbl) ==
    {SetToBag(rows) :
        rows \in SUBSET {UaRow(u, a) : u \in {1, 2},
                                       a \in {1, 5} \cap (1..Len(tbl))}}

NoLists == [all |-> <<>>, mine |-> <<>>, done |-> FALSE]

InitOrder ==
    /\ users = OrderUsers
    /\ achievements \in OrderTables
    /\ user_achievements \in OrderUnlocks(achievements)
    /\ sessions = [s \in Sessions |-> NoSession]
    /\ pc = [p \in Procs |-> "idle"]
    /\ req = [p \in Procs |-> NoReq]
    /\ loc = [p \in Procs |-> NoLoc]
    /\ resp = [p \in Procs |-> NoResp]
    /\ nreq = 0
    /\ seed = SeedDone
    /\ input \in [userId : {1, 2}]
    /\ output = NoLists

\* both queries are run on the store
Query ==
    /\ ~output.done
    /\ output' = [all |-> getAllAchievements(achievements),
                  mine |-> getUserAchievements(achievements,
                                               user_achievements,
                                               input.userId),
                  done |-> TRUE]
    /\ UNCHANGED <<server, seed, input>>

NextOrder == Query

SpecOrder == InitOrder /\ [][NextOrder]_vars

(***************************************************************************)
(* Storage failures: a statement a handler awaits may fail with a driver   *)
(* error, which the handler's catch block answers; the health check in its *)
(* two versions.                                                           *)
(***************************************************************************)
\* the catch block of the handler of a request of this kind
CatchResponse(kind, err) ==
    CASE kind = "register" ->
             ErrorResp("register", 500, RegisterCatchMessage(err))
      [] kind = "login" -> ErrorResp("login", 500, "Internal server error")
      [] kind = "achievements" ->
             ErrorResp("achievements", 500, "Failed to load achievements")
      [] kind = "unlock" ->
             ErrorResp("unlock", 500, "Failed to unlock achievement")
      [] kind = "me" -> ErrorResp("me", 500, "Internal server error")
      [] OTHER -> ErrorResp(kind, 500, "Internal server error")

\* the statement the handler of process p awaits fails with err: the
\* rejection reaches the catch block of the handler
StoreFails(p, err) ==
    /\ pc[p] # "idle"
    /\ Respond(p, IF pc[p] \in {"ua_find", "ua_check", "ua_insert"}
                  THEN UnlockSettled(p, "rejected", err)
                  ELSE CatchResponse(req[p].kind, err))
    /\ UNCHANGED <<users, achievements, user_achievements, nreq>>
    /\ UNCHANGED <<seed, input, output>>

\* GET /api/health of server.js: db.checkDatabaseStatus() counts the rows
\* of the three tables (the counts are not kept here) or rejects
Health(p, err) ==
    /\ Receive(p)
    /\ resp' = [resp EXCEPT ![p] =
                  IF err.isErr
                  THEN ErrorResp("health", 500, "Database connection failed")
                  ELSE [NoResp EXCEPT !.kind = "health", !.status = 200,
                                      !.success = TRUE]]
    /\ UNCHANGED <<users, achievements, user_achievements, sessions, pc, req,
                   loc>>
    /\ UNCHANGED <<seed, input, output>>

\* GET /api/health of the second server version: its catch block adds
\* details: error.message
HealthDetailed(p, err) ==
    /\ Receive(p)
    /\ resp' = [resp EXCEPT ![p] =
                  IF err.isErr
                  THEN [ErrorResp("health", 500, "Database connection failed")
                          EXCEPT !.details = err.message]
                  ELSE [NoResp EXCEPT !.kind = "health", !.status = 200,
                                      !.success = TRUE]]
    /\ UNCHANGED <<users, achievements, user_achievements, sessions, pc, req,
                   loc>>
    /\ UNCHANGED <<seed, input, output>>

\* the requests sent while the storage may fail
FaultBodies ==
    {[username |-> Str(Alice), password |-> Str(Secret), email |-> Undefined]}

FaultLogins == {[username |-> Str(Alice), password |-> Str(Secret)]}

FaultNames == {WithRegistration}

DriverErrors == {SqliteIoErr}

NextFault ==
    \/ \E p \in Procs, s \in Sessions, body \in FaultBodies :
           RegisterStart(p, s, body)
    \/ \E p \in Procs : RegGetUser(p)
    \/ \E p \in Procs : RegCreateUser(p)
    \/ \E p \in Procs : UaFind(p)
    \/ \E p \in Procs : UaCheck(p)
    \/ \E p \in Procs : UaInsert(p)
    \/ \E p \in Procs, s \in Sessions, name \in FaultNames :
           UnlockStart(p, s, name)
    \/ \E p \in Procs, s \in Sessions, body \in FaultLogins :
           LoginStart(p, s, body)
    \/ \E p \in Procs : LoginVerify(p)
    \/ \E p \in Procs : LoginGetUser(p)
    \/ \E p \in Procs, s \in Sessions : ListStart(p, s)
    \/ \E p \in Procs : ListAll(p)
    \/ \E p \in Procs : ListUser(p)
    \/ \E p \in Procs : ListGetUser(p)
    \/ \E p \in Procs, s \in Sessions : MeStart(p, s)
    \/ \E p \in Procs : MeGetUser(p)
    \/ \E p \in Procs, err \in DriverErrors : StoreFails(p, err)
    \/ \E p \in Procs, err \in {NoError} \cup DriverErrors : Health(p, err)
    \/ \E p \in Procs, err \in {NoError} \cup DriverErrors :
           HealthDetailed(p, err)

SpecFault == Init /\ [][NextFault]_vars

(***************************************************************************)
(* The first moments of a process on a new database file: initTables has   *)
(* issued the three CREATE TABLE statements and set the 100 ms timer; the  *)
(* statements complete and the timer fires in any order, while the HTTP    *)
(* server already takes requests for the achievement list.                 *)
(***************************************************************************)
AllTables == {"users", "achievements", "user_achievements"}

\* a CREATE TABLE IF NOT EXISTS statement completes
CreateTable(t) ==
    /\ t \notin seed.tables
    /\ seed' = [seed EXCEPT !.tables = @ \cup {t}]
    /\ UNCHANGED <<server, input, output>>

\* the timer set by initTables fires: initAchievements is called
TimerFires ==
    /\ seed.pc = "timer"
    /\ seed' = [seed EXCEPT !.pc = "count"]
    /\ UNCHANGED <<server, input, output>>

\* SELECT COUNT(*) on the achievements table that exists
CountAchievements ==
    /\ "achievements" \in seed.tables
    /\ SeedCount

\* SELECT COUNT(*) before the achievements table exists: the callback gets
\* an error, logs it and returns, and nothing is seeded
CountFails ==
    /\ seed.pc = "count"
    /\ "achievements" \notin seed.tables
    /\ seed' = [seed EXCEPT !.pc = "failed"]
    /\ UNCHANGED <<server, input, output>>

\* db.getAllAchievements() on the achievements table that exists
ListAllStored(p) ==
    /\ "achievements" \in seed.tables
    /\ ListAll(p)

\* db.getAllAchievements() before the achievements table exists
ListAllFails(p) ==
    /\ pc[p] = "list_all"
    /\ "achievements" \notin seed.tables
    /\ Respond(p, CatchResponse("achievements", SqliteNoTable("achievements")))
    /\ UNCHANGED <<users, achievements, user_achievements, nreq>>
    /\ UNCHANGED <<seed, input, output>>

InitStart ==
    /\ users = <<>>
    /\ achievements = <<>>
    /\ user_achievements = EmptyBag
    /\ sessions = [s \in Sessions |-> NoSession]
    /\ pc = [p \in Procs |-> "idle"]
    /\ req = [p \in Procs |-> NoReq]
    /\ loc = [p \in Procs |-> NoLoc]
    /\ resp = [p \in Procs |-> NoResp]
    /\ nreq = 0
    /\ seed = [pc |-> "timer", next |-> 0, boots |-> 1, tables |-> {}]
    /\ input = NoBody
    /\ output = "pending"

NextStart ==
    \/ \E t \in AllTables : CreateTable(t)
    \/ TimerFires
    \/ CountAchievements
    \/ CountFails
    \/ SeedInsert
    \/ \E p \in Procs, s \in Sessions : ListStart(p, s)
    \/ \E p \in Procs : ListAllStored(p)
    \/ \E p \in Procs : ListAllFails(p)

SpecStart == InitStart /\ [][NextStart]_vars

(***************************************************************************)
(* The promise of db.unlockAchievement: several calls run at once, each    *)
(* through its three nested callbacks; a statement may fail with a driver  *)
(* error. settle lists the resolve and reject calls a callback makes, next *)
(* is the statement it issues ("end" if none).                             *)
(***************************************************************************)
Callers == 1..MaxCallers

\* a lookup callback that goes on to the check after resolve(false)
FindCallback_NoElse(err, achievement) ==
    IF err.isErr THEN [settle |-> <<"rejected">>, next |-> "end"]
    ELSE IF achievement.id = 0 THEN [settle |-> <<"false">>, next |-> "check"]
    ELSE [settle |-> <<>>, next |-> "check"]

\* the callback of SELECT id FROM achievements WHERE name = ?
FindCallback(err, achievement) ==
    IF err.isErr THEN [settle |-> <<"rejected">>, next |-> "end"]
    ELSE IF achievement.id = 0 THEN [settle |-> <<"false">>, next |-> "end"]
    ELSE [settle |-> <<>>, next |-> "check"]

\* the callback of SELECT 1 FROM user_achievements WHERE ...
CheckCallback(err, row) ==
    IF err.isErr THEN [settle |-> <<"rejected">>, next |-> "end"]
    ELSE IF row THEN [settle |-> <<"false">>, next |-> "end"]
    ELSE [settle |-> <<>>, next |-> "insert"]

\* the callback of INSERT INTO user_achievements
InsertCallback(err) ==
    IF err.isErr THEN [settle |-> <<"rejected">>, next |-> "end"]
    ELSE [settle |-> <<"true">>, next |-> "end"]

\* call c after a callback with this effect
AfterCallback(c, effect) ==
    [output EXCEPT ![c].at = effect.next,
                   ![c].calls = @ \o effect.settle]

\* the lookup of call c completes, with the row or with a driver error
PromiseFind(c, fault) ==
    /\ output[c].at = "find"
    /\ LET a == IF fault.isErr THEN NoAchievement
                ELSE SelectAchievementByName(achievements, output[c].name)
       IN  output' = [AfterCallback(c, FindCallback(fault, a))
                        EXCEPT ![c].achievementId = a.id]
    /\ UNCHANGED <<server, seed, input>>

\* the check of call c completes
PromiseCheck(c, fault) ==
    /\ output[c].at = "check"
    /\ LET row == IF fault.isErr THEN FALSE
                  ELSE SelectUserAchievement(user_achievements,
                                             output[c].userId,
                                             output[c].achievementId)
       IN  output' = AfterCallback(c, CheckCallback(fault, row))
    /\ UNCHANGED <<server, seed, input>>

\* the insert of call c completes
PromiseInsert(c, fault) ==
    /\ output[c].at = "insert"
    /\ LET r == IF fault.isErr THEN [err |-> fault, table |-> user_achievements]
                ELSE InsertUserAchievement(user_achievements, output[c].userId,
                                           output[c].achievementId)
       IN  /\ user_achievements' = r.table
           /\ output' = AfterCallback(c, InsertCallback(r.err))
    /\ UNCHANGED <<users, achievements, sessions, pc, req, loc, resp, nreq,
                   seed, input>>

\* the calls made: by either user, for a catalog name or an unknown one
NewCalls ==
    [at : {"find"}, userId : {1, 2},
     name : {WithRegistration, "Nonexistent Name"},
     achievementId : {0}, calls : {<<>>}]

InitUnlock ==
    /\ users = OrderUsers
    /\ achievements = initAchievements(<<>>)
    /\ user_achievements = EmptyBag
    /\ sessions = [s \in Sessions |-> NoSession]
    /\ pc = [p \in Procs |-> "idle"]
    /\ req = [p \in Procs |-> NoReq]
    /\ loc = [p \in Procs |-> NoLoc]
    /\ resp = [p \in Procs |-> NoResp]
    /\ nreq = 0
    /\ seed = SeedDone
    /\ input = NoBody
    /\ output \in [Callers -> NewCalls]

NextUnlock ==
    \/ \E c \in Callers, fault \in {NoError, SqliteIoErr} :
           PromiseFind(c, fault)
    \/ \E c \in Callers, fault \in {NoError, SqliteIoErr} :
           PromiseCheck(c, fault)
    \/ \E c \in Callers, fault \in {NoError, SqliteIoErr} :
           PromiseInsert(c, fault)

SpecUnlock == InitUnlock /\ [][NextUnlock]_vars

\* the driver calls back for every statement it was given
SpecUnlockFair == SpecUnlock /\ WF_vars(NextUnlock)

(***************************************************************************)
(* Several server processes on one database file: each runs the seeding    *)
(* when it starts, may be stopped at any moment and started again.         *)
(***************************************************************************)
Instances == {"i1", "i2"}

\* a process is started: its tables exist and its timer runs initAchievements
InstanceStart(i) ==
    /\ seed[i].pc = "off"
    /\ seed[i].boots < MaxBoots
    /\ seed' = [seed EXCEPT ![i] = [pc |-> "count", next |-> 0,
                                    boots |-> seed[i].boots + 1]]
    /\ UNCHANGED <<server, input, output>>

\* SELECT COUNT(*) as count FROM achievements, by process i
InstanceCount(i) ==
    /\ seed[i].pc = "count"
    /\ seed' = [seed EXCEPT ![i] =
                  IF SeedNeeded(achievements)
                  THEN [@ EXCEPT !.pc = "insert", !.next = 1]
                  ELSE [@ EXCEPT !.pc = "done", !.next = 0]]
    /\ UNCHANGED <<server, input, output>>

\* await this.addAchievement(achievement), by process i
InstanceInsert(i) ==
    /\ seed[i].pc = "insert"
    /\ achievements' = addAchievement(achievements, Catalog[seed[i].next])
    /\ seed' = [seed EXCEPT ![i] =
                  IF seed[i].next = Len(Catalog)
                  THEN [@ EXCEPT !.pc = "done", !.next = 0]
                  ELSE [@ EXCEPT !.next = seed[i].next + 1]]
    /\ UNCHANGED <<users, user_achievements, sessions, pc, req, loc, resp,
                   nreq, input, output>>

\* process i ends, wherever its seeding is
InstanceStop(i) ==
    /\ seed[i].pc # "off"
    /\ seed' = [seed EXCEPT ![i] = [@ EXCEPT !.pc = "off", !.next = 0]]
    /\ UNCHANGED <<server, input, output>>

InitInstances ==
    /\ users = <<>>
    /\ achievements = <<>>
    /\ user_achievements = EmptyBag
    /\ sessions = [s \in Sessions |-> NoSession]
    /\ pc = [p \in Procs |-> "idle"]
    /\ req = [p \in Procs |-> NoReq]
    /\ loc = [p \in Procs |-> NoLoc]
    /\ resp = [p \in Procs |-> NoResp]
    /\ nreq = 0
    /\ seed = [i \in Instances |-> [pc |-> "off", next |-> 0, boots |-> 0]]
    /\ input = NoBody
    /\ output = "pending"

NextInstances ==
    \/ \E i \in Instances : InstanceStart(i)
    \/ \E i \in Instances : InstanceCount(i)
    \/ \E i \in Instances : InstanceInsert(i)
    \/ \E i \in Instances : InstanceStop(i)

SpecInstances == InitInstances /\ [][NextInstances]_vars

(***************************************************************************)
(* Properties                                                              *)
(***************************************************************************)
\* process p takes a step of its handler
Steps(p) == pc'[p] # pc[p]

\* process p is inside a call of unlockAchievement
InUnlock(p) == pc[p] \in {"ua_find", "ua_check", "ua_insert"}

\* the row unlockAchievement of process p is about, once its lookup is done
Pair(p) == UaRow(loc[p].userId, loc[p].achievementId)

\* the catalog holds an achievement of this name
Named(name) == \E i \in 1..Len(achievements) : achievements[i].name = name

\* C1: in every reachable state user_achievements holds at most one row for
\* each (user id, achievement id) pair.
C1_AtMostOneRowPerPair ==
    \A row \in BagToSet(user_achievements) :
        CopiesIn(row, user_achievements) <= 1

\* two calls raced for one pair: the insert of the later one met the key
C1_Witness ==
    \E p \in Procs :
        /\ resp[p].unlock = "rejected"
        /\ user_achievements # EmptyBag

\* C2: a call of unlockAchievement for an existing achievement that the user
\* had not unlocked when it was called never ends in an error, whatever
\* other call for the pair runs beside it: it resolves to true exactly when
\* it inserted the row, to false otherwise, and one row exists afterwards.
C2_RacingUnlocksResolve ==
    [][\A p \in Procs :
          (InUnlock(p) /\ ~loc[p].held /\ Named(loc[p].achievementName)
             /\ pc'[p] = "idle")
          => /\ resp'[p].unlock \in {"true", "false"}
             /\ (resp'[p].unlock = "true")
                  <=> (CopiesIn(Pair(p), user_achievements) = 0)
             /\ CopiesIn(Pair(p), user_achievements') = 1]_vars

\* C3: unlockAchievement resolves to true only in the step that inserts a
\* new row for its pair; called for a pair that is already unlocked it
\* resolves to false and user_achievements stays as it was.
C3_UnlockIdempotent ==
    [][\A p \in Procs :
          (InUnlock(p) /\ Steps(p))
          => /\ (pc'[p] = "idle" /\ resp'[p].unlock = "true")
                  => /\ CopiesIn(Pair(p), user_achievements) = 0
                     /\ user_achievements' =
                          user_achievements (+) SetToBag({Pair(p)})
             /\ loc[p].held
                  => /\ user_achievements' = user_achievements
                     /\ pc'[p] = "idle" => resp'[p].unlock = "false"]_vars

\* an unlock request for a pair that was already unlocked got false
C3_Witness ==
    \E p \in Procs :
        /\ resp[p].kind = "unlock"
        /\ resp[p].held
        /\ resp[p].unlock = "false"
        /\ resp[p].status = 200

\* C4: unlockAchievement with a name that matches no achievements row
\* resolves to false, raises no error and inserts nothing.
C4_UnknownNameFalse ==
    [][\A p \in Procs :
          (pc[p] = "ua_find" /\ ~Named(loc[p].achievementName) /\ Steps(p))
          => /\ pc'[p] = "idle"
             /\ resp'[p].unlock = "false"
             /\ user_achievements' = user_achievements]_vars

\* an unlock request whose name was not found got false
C4_Witness ==
    \E p \in Procs :
        /\ resp[p].kind = "unlock"
        /\ resp[p].achievementId = 0
        /\ resp[p].unlock = "false"
        /\ resp[p].status = 200

\* C5: a registration whose user row was created ends with a success
\* response for the new user, also when its unlock of "With Registration!"
\* fails.
C5_RegistrationSurvivesUnlock ==
    [][\A p \in Procs :
          (req[p].kind = "register" /\ InUnlock(p) /\ pc'[p] = "idle")
          => /\ resp'[p].status = 200
             /\ resp'[p].success
             /\ resp'[p].user = [id |-> loc[p].userId,
                                 username |-> req[p].username.s]]_vars

\* C6: a registration that passes validation with a username that was
\* stored when it arrived is answered 400 'Username already taken' and
\* adds no users row.
C6_TakenUsernameRejected ==
    [][\A p \in Procs :
          (req[p].kind = "register" /\ loc[p].taken /\ Steps(p))
          => /\ users' = users
             /\ pc'[p] = "idle"
             /\ resp'[p] = [NoResp EXCEPT !.kind = "register", !.status = 400,
                              !.error = "Username already taken"]]_vars

\* alice registered; a second registration was answered 'already taken'
C6_Witness ==
    \E p \in Procs : \E q \in Procs \ {p} :
        /\ Len(users) = 1
        /\ resp[q].kind = "register" /\ resp[q].success
        /\ resp[q].user.username = users[1].username
        /\ resp[p].kind = "register" /\ resp[p].status = 400
        /\ resp[p].error = "Username already taken"

\* C7: of two registrations for one new username that both passed the
\* pre-check, the one that inserts second creates no user and is answered
\* with a result that names the username as already taken.
C7_RacingRegistrationNamed ==
    [][\A p \in Procs :
          (pc[p] = "reg_createUser" /\ ~loc[p].taken
             /\ (\E i \in 1..Len(users) : users[i].username = req[p].username.s)
             /\ Steps(p))
          => /\ users' = users
             /\ resp'[p].error = "Username already taken"]_vars

\* C8: a registration with a new username and a non-null e-mail that is
\* stored for another user creates no user and is answered with a result
\* that says the e-mail is already registered.
C8_TakenEmailNamed ==
    [][\A p \in Procs :
          (pc[p] = "reg_createUser"
             /\ (\A i \in 1..Len(users) : users[i].username # req[p].username.s)
             /\ loc[p].cleanEmail.t = "string"
             /\ (\E i \in 1..Len(users) : users[i].email = loc[p].cleanEmail)
             /\ Steps(p))
          => /\ users' = users
             /\ resp'[p].error = "Email already registered"]_vars

\* C9: no two users rows have the same username, and no two have the same
\* non-null e-mail.
C9_UsersUnique ==
    \A i \in 1..Len(users) : \A j \in 1..Len(users) :
        i # j => /\ users[i].username # users[j].username
                 /\ users[i].email.t # "null"
                      => users[i].email # users[j].email

\* an insert was refused by a constraint while a user with an e-mail and
\* two users in all are stored
C9_Witness ==
    /\ Len(users) = 2
    /\ \E i \in 1..Len(users) : users[i].email.t = "string"
    /\ \E p \in Procs :
           /\ resp[p].kind = "register"
           /\ resp[p].status = 500
           /\ resp[p].unlock = "none"

\* C10: a registration whose e-mail is absent, empty or only whitespace
\* stores a null e-mail, and its insert never fails on the e-mail: it adds
\* the row whenever the username is new.
C10_BlankEmailNull ==
    [][\A p \in Procs :
          (pc[p] = "reg_createUser" /\ loc[p].blank /\ Steps(p))
          => IF \E i \in 1..Len(users) : users[i].username = req[p].username.s
             THEN users' = users
             ELSE /\ Len(users') = Len(users) + 1
                  /\ users'[Len(users')].username = req[p].username.s
                  /\ users'[Len(users')].email = Null]_vars

\* two users registered with a blank e-mail and both store null
C10_Witness ==
    /\ Len(users) = 2
    /\ users[1].email = Null
    /\ users[2].email = Null
    /\ \E p \in Procs : \E q \in Procs \ {p} :
           /\ resp[p].kind = "register" /\ resp[p].success
           /\ resp[q].kind = "register" /\ resp[q].success
           /\ resp[p].user.id # resp[q].user.id

\* the rules of the register validation, as violated by a body
UsernameBad(body) == Falsy(body.username) \/ Len(body.username.s) < 3

PasswordBad(body) == Falsy(body.password) \/ Len(body.password.s) < 6

EmailBad(body) ==
    ~IsBlankEmail(body.email) /\ ~emailRegexTest(Trim(body.email.s))

\* the error of the username rule and of the password rule for a body
UsernameError(body) ==
    IF Falsy(body.username) THEN "Username and password are required"
    ELSE "Username must be at least 3 characters"

PasswordError(body) ==
    IF Falsy(body.password) THEN "Username and password are required"
    ELSE "Password must be at least 6 characters"

\* C11 as stated: the rules are username (present, at least 3 characters),
\* then password (present, at least 6 characters), then e-mail shape, and
\* the reported error is that of the first rule the body violates.
C11_FirstRuleWins ==
    output # "pending"
    => output = IF UsernameBad(input) THEN UsernameError(input)
                ELSE IF PasswordBad(input) THEN PasswordError(input)
                ELSE IF EmailBad(input) THEN "Invalid email format"
                ELSE "ok"

\* the checks of the handler, in its order: either field missing, username
\* shorter than 3, password shorter than 6, e-mail shape
ChecksFailed(body) ==
    << Falsy(body.username) \/ Falsy(body.password),
       ~Falsy(body.username) /\ Len(body.username.s) < 3,
       ~Falsy(body.password) /\ Len(body.password.s) < 6,
       EmailBad(body) >>

CheckErrors ==
    << "Username and password are required",
       "Username must be at least 3 characters",
       "Password must be at least 6 characters",
       "Invalid email format" >>

\* C11 as amended: the reported error is that of the first failed check in
\* the order presence of both fields, username length, password length,
\* e-mail shape; a body that fails none passes.
C11_FirstCheckWins ==
    output # "pending"
    => IF \E i \in 1..4 : ChecksFailed(input)[i]
       THEN \E i \in 1..4 :
               /\ ChecksFailed(input)[i]
               /\ \A j \in 1..(i - 1) : ~ChecksFailed(input)[j]
               /\ output = CheckErrors[i]
       ELSE output = "ok"

\* a 2-character username with a missing password was validated
C11_Witness ==
    /\ input.username = Str(ShortName)
    /\ input.password = Undefined
    /\ output = "Username and password are required"

\* C12: after every registration that returned success, the new user has
\* a user_achievements row for "With Registration!", also when the
\* registration is served before the start-up seeding has finished.
C12_RegisteredHolds ==
    \A p \in Procs :
        (resp[p].kind = "register" /\ resp[p].success)
        => \E i \in 1..Len(achievements) :
              /\ achievements[i].name = WithRegistration
              /\ CopiesIn(UaRow(resp[p].user.id, achievements[i].id),
                          user_achievements) > 0

\* C20: a seeding that finds the achievements table non-empty inserts
\* nothing, and after every finished initialization the catalog has its 8
\* entries, each name once.
C20_SeedingIdempotent ==
    [][/\ (seed.pc = "count" /\ seed' # seed /\ Len(achievements) > 0)
            => (achievements' = achievements /\ seed'.pc = "done")
       /\ seed'.pc = "done"
            => /\ Len(achievements') = 8
               /\ \A i \in 1..Len(achievements') :
                      /\ achievements'[i].name = Catalog[i].name
                      /\ \A j \in 1..Len(achievements') :
                             achievements'[i].name = achievements'[j].name
                             => i = j]_vars

\* a second initialization ran against the seeded table and finished
C20_Witness ==
    /\ seed.boots = 2
    /\ seed.pc = "done"
    /\ Len(achievements) = 8

\* what the client sees of a response
Visible(r) ==
    [status |-> r.status, success |-> r.success, error |-> r.error,
     message |-> r.message, user |-> r.user]

\* the login request of process p names a stored user and carries the
\* password that user's stored hash was made from
ValidLogin(p) ==
    \E i \in 1..Len(users) :
        /\ users[i].username = req[p].username.s
        /\ users[i].password_hash = BcryptHash(req[p].password.s, BcryptCost)

\* C13: a login that is refused for its credentials gets the same response,
\* 401 'Invalid username or password', whether the username is unknown or
\* the password is wrong.
C13_LoginFailuresAlike ==
    [][\A p \in Procs :
          (req[p].kind = "login" /\ Steps(p) /\ ~ValidLogin(p))
          => /\ pc'[p] = "idle"
             /\ Visible(resp'[p]) =
                  Visible(ErrorResp("login", 401,
                                    "Invalid username or password"))]_vars

\* one login was refused for an unknown username, one for a wrong password
C13_Witness ==
    \E p \in Procs : \E q \in Procs \ {p} :
        /\ resp[p].kind = "login" /\ resp[p].status = 401 /\ resp[p].known
        /\ resp[q].kind = "login" /\ resp[q].status = 401 /\ ~resp[q].known

C15_UnlockNeedsSession ==
    [][\A p \in Procs : \A s \in Sessions : \A name \in UnlockNames :
          (UnlockStart(p, s, name) /\ sessions[s].userId = 0)
          => /\ pc'[p] = "idle"
             /\ resp'[p] = ErrorResp("unlock", 401, "Authentication required")
             /\ user_achievements' = user_achievements]_vars

\* an unlock request was refused for want of a session
C15_Witness ==
    \E p \in Procs :
        resp[p] = ErrorResp("unlock", 401, "Authentication required")

\* C16: a logout whose destroy succeeded answers success and leaves its
\* session without a user; a logout whose destroy failed answers 500
\* 'Logout failed'; on a session without a user /api/me answers
\* authenticated: false and an unlock is answered 401; and a session without
\* a user gets one only when a login or a registration made on that session
\* is answered.
C16_LogoutEndsSession ==
    [][\A s \in Sessions :
          /\ \A p \in Procs :
                /\ Logout(p, s, FALSE)
                   => resp'[p].success /\ sessions'[s].userId = 0
                /\ Logout(p, s, TRUE)
                   => /\ ~resp'[p].success
                      /\ resp'[p].status = 500
                      /\ resp'[p].error = "Logout failed"
                /\ (MeStart(p, s) /\ sessions[s].userId = 0)
                   => /\ pc'[p] = "idle"
                      /\ resp'[p].kind = "me"
                      /\ ~resp'[p].authenticated
                /\ \A name \in UnlockNames :
                      (UnlockStart(p, s, name) /\ sessions[s].userId = 0)
                      => /\ pc'[p] = "idle"
                         /\ resp'[p].status = 401
                         /\ resp'[p].error = "Authentication required"
          /\ (sessions[s].userId = 0 /\ sessions'[s].userId # 0)
             => \E p \in Procs :
                   /\ req[p].sid = s
                   /\ req[p].kind \in {"login", "register"}
                   /\ pc[p] # "idle" /\ pc'[p] = "idle"]_vars

\* a logout ended a session that identified a user, no session identifies
\* one, and /api/me has answered authenticated: false
C16_Witness ==
    /\ \E p \in Procs :
          /\ resp[p].kind = "logout" /\ resp[p].success
          /\ resp[p].user.id # 0
    /\ \E p \in Procs : resp[p].kind = "me" /\ ~resp[p].authenticated
    /\ \A s \in Sessions : sessions[s].userId = 0

\* C17: the list sent to a viewer without a session has one entry for each
\* stored achievement and no other, each with unlocked: false, whatever
\* user_achievements holds.
C17_AnonymousListLocked ==
    [][\A p \in Procs :
          (pc[p] = "list_all" /\ pc'[p] = "idle")
          => LET list == resp'[p].achievements
             IN  /\ resp'[p].success
                 /\ resp'[p].user = NoUserInfo
                 /\ Len(list) = Len(achievements)
                 /\ \A i \in 1..Len(achievements) :
                       Cardinality({k \in 1..Len(list) :
                                      /\ list[k].id = achievements[i].id
                                      /\ list[k].name = achievements[i].name})
                       = 1
                 /\ \A k \in 1..Len(list) : list[k].unlocked = "false"]_vars

\* the whole catalog was sent, all locked, to a viewer without a session
\* while user_achievements held a row
C17_Witness ==
    \E p \in Procs :
        /\ resp[p].kind = "achievements" /\ resp[p].success
        /\ resp[p].user = NoUserInfo
        /\ Len(resp[p].achievements) = Len(Catalog)
        /\ \A k \in 1..Len(resp[p].achievements) :
              resp[p].achievements[k].unlocked = "false"
        /\ resp[p].rows > 0

\* C18: the list read for a user has one entry for each stored achievement
\* and no other; an entry is unlocked exactly when user_achievements holds
\* a row of that user and that achievement; a user with one row gets one
\* unlocked entry; and that list is the one sent.
C18_UserListMatchesRows ==
    [][\A p \in Procs :
          /\ (pc[p] = "list_user" /\ pc'[p] = "list_getUser")
             => LET list == loc'[p].achievements
                    mine == {r \in BagToSet(user_achievements) :
                                r.user_id = loc[p].userId}
                IN  /\ Len(list) = Len(achievements)
                    /\ \A i \in 1..Len(achievements) :
                          \E k \in 1..Len(list) :
                             /\ list[k].id = achievements[i].id
                             /\ list[k].name = achievements[i].name
                             /\ list[k].unlocked =
                                  IF UaRow(loc[p].userId, achievements[i].id)
                                        \in mine
                                  THEN "1" ELSE "0"
                             /\ \A j \in 1..Len(list) :
                                   list[j].id = list[k].id => j = k
                    /\ Cardinality(mine) = 1
                       => Cardinality({k \in 1..Len(list) :
                                         list[k].unlocked = "1"}) = 1
          /\ (pc[p] = "list_getUser" /\ pc'[p] = "idle")
             => /\ resp'[p].success
                /\ resp'[p].achievements = loc[p].achievements]_vars

\* a user's list was sent with 'With Registration!' as its one unlocked
\* entry
C18_Witness ==
    \E p \in Procs :
        /\ resp[p].kind = "achievements" /\ resp[p].success
        /\ resp[p].user.id # 0
        /\ Len(resp[p].achievements) = Len(Catalog)
        /\ \E k \in 1..Len(resp[p].achievements) :
              /\ resp[p].achievements[k].unlocked = "1"
              /\ resp[p].achievements[k].name = WithRegistration
              /\ \A j \in 1..Len(resp[p].achievements) :
                    resp[p].achievements[j].unlocked = "1" => j = k

\* the ids of a list, in its order
Ids(list) == [i \in 1..Len(list) |-> list[i].id]

\* each row of the list sorts before the rows behind it
Ascending(list) ==
    \A i, j \in 1..Len(list) : i < j => RowBefore(list[i], list[j])

\* C19: for every store content the catalog list and a user's list are both
\* ascending by (category, id) and present the same achievements in the
\* same order; the full catalog comes as about, account, contact, games,
\* main, news.
C19_ListsOrdered ==
    output.done
    => /\ Ascending(output.all)
       /\ Ascending(output.mine)
       /\ Ids(output.all) = Ids(output.mine)
       /\ Len(output.all) = Len(achievements)
       /\ Len(achievements) = Len(Catalog)
          => Ids(output.all) = <<1, 5, 7, 8, 3, 4, 6, 2>>

\* both lists of the full catalog were read with unlocks stored
C19_Witness ==
    /\ output.done
    /\ Len(output.all) = Len(Catalog)
    /\ Len(output.mine) = Len(Catalog)
    /\ \E k \in 1..Len(output.mine) : output.mine[k].unlocked = "1"
    /\ output.all[1].category = "about"
    /\ output.all[Len(Catalog)].category = "news"

\* C21: in every state, overlapping initializations and a seeding that
\* stopped half way included, no two achievements share a name and the
\* table holds no more rows than the catalog has entries.
C21_CatalogNamesUnique ==
    /\ \A i, j \in 1..Len(achievements) :
          achievements[i].name = achievements[j].name => i = j
    /\ Len(achievements) <= Len(Catalog)

\* the error texts the handlers write themselves
ClientErrors ==
    {"", "Username and password are required",
     "Username must be at least 3 characters",
     "Password must be at least 6 characters", "Invalid email format",
     "Username already taken", "Email already registered",
     "Internal server error", "Invalid username or password",
     "Logout failed", "Failed to load achievements",
     "Authentication required", "Achievement name is required",
     "Failed to unlock achievement", "Database connection failed"}

\* C22: whatever statement fails in whichever handler, the answer carries
\* one of the handlers' own error texts and no text of the driver's error.
C22_NoDriverText ==
    \A p \in Procs :
        /\ resp[p].error \in ClientErrors
        /\ resp[p].details = <<>>

\* C23: no answer has a password_hash field: the user of a register, login
\* or /api/me answer is id and username (with email beside it), and the
\* user of an achievement list is the row getUserById returned, which has
\* id, username and email only.
C23_NoPasswordHash ==
    \A p \in Procs :
        /\ DOMAIN resp[p].user = {"id", "username"}
        /\ DOMAIN resp[p].userRow = {"id", "username", "email"}
        /\ "password_hash" \notin DOMAIN resp[p]

\* an achievement list was sent with its user's row while that user's
\* password hash is stored
C23_Witness ==
    \E p \in Procs :
        /\ resp[p].kind = "achievements" /\ resp[p].success
        /\ resp[p].userRow.id # 0
        /\ \E i \in 1..Len(users) :
              /\ users[i].id = resp[p].userRow.id
              /\ users[i].password_hash # <<>>

\* C24: no step takes a row out of user_achievements, and the table changes
\* only at the INSERT of an unlockAchievement call, made for an unlock
\* request or for a registration, by the one row of that call's pair.
C24_UnlocksOnlyAdded ==
    [][/\ \A r \in BagToSet(user_achievements) :
             CopiesIn(r, user_achievements') >= CopiesIn(r, user_achievements)
       /\ user_achievements' # user_achievements
          => \E p \in Procs :
                /\ pc[p] = "ua_insert" /\ pc'[p] = "idle"
                /\ req[p].kind \in {"register", "unlock"}
                /\ user_achievements' =
                     user_achievements
                     (+) SetToBag({UaRow(loc[p].userId,
                                         loc[p].achievementId)})]_vars

\* an unlock request added a row beside the rows stored before it
C24_Witness ==
    /\ BagCardinality(user_achievements) >= 2
    /\ \E p \in Procs : resp[p].kind = "unlock" /\ resp[p].unlock = "true"

\* C25: while the seeding runs its count or its inserts all three tables
\* have been created, and while a request is being served they have too,
\* whenever the CREATE TABLE statements complete and the timer fires.
C25_SeedingAfterTables ==
    /\ seed.pc \in {"count", "insert", "done"} => seed.tables = AllTables
    /\ \A p \in Procs : pc[p] # "idle" => seed.tables = AllTables

\* C26: whatever the number of calls of unlockAchievement for one user and
\* one name and however their statements interleave, at most one of their
\* promises is resolved with true.
C26_AtMostOneTrue ==
    \A u \in {1, 2} : \A n \in {WithRegistration, "Nonexistent Name"} :
        Cardinality({c \in Callers :
                       /\ output[c].userId = u /\ output[c].name = n
                       /\ output[c].calls # <<>>
                       /\ Head(output[c].calls) = "true"}) <= 1

\* every call was for the same pair and has ended: one resolved true and
\* another was rejected by the primary key
C26_Witness ==
    /\ \A c \in Callers :
          /\ output[c].at = "end"
          /\ output[c].userId = 1 /\ output[c].name = WithRegistration
    /\ \E c \in Callers : output[c].calls = <<"true">>
    /\ \E c \in Callers : output[c].calls = <<"rejected">>
    /\ BagCardinality(user_achievements) = 1

\* C30: a call that still has a statement outstanding has not settled its
\* promise, a call that has none has made exactly one resolve or reject
\* call, and every call comes to that end.
C30_SettlesOnce ==
    /\ [](\A c \in Callers :
             /\ output[c].at # "end" => output[c].calls = <<>>
             /\ output[c].at = "end" => Len(output[c].calls) = 1)
    /\ <>[](\A c \in Callers : output[c].at = "end")

\* calls have ended on each path: resolved true, resolved false for an
\* unknown name, and rejected by a storage error
C30_Witness ==
    /\ \A c \in Callers : output[c].at = "end"
    /\ \E c \in Callers : output[c].calls = <<"true">>
    /\ \E c \in Callers :
          output[c].calls = <<"false">> /\ output[c].achievementId = 0
    /\ \E c \in Callers :
          /\ output[c].calls = <<"rejected">>
          /\ CopiesIn(UaRow(output[c].userId, output[c].achievementId),
                      user_achievements) = 0

\* C27: a stored session that has a userId has the id and the username of
\* one stored users row.
C27_SessionsReferUsers ==
    \A s \in Sessions :
        sessions[s].userId # 0
        => \E i \in 1..Len(users) :
              /\ users[i].id = sessions[s].userId
              /\ users[i].username = sessions[s].username

\* one session was bound by a registration and one by a login, to
\* different users
C27_Witness ==
    /\ \E p \in Procs : resp[p].kind = "login" /\ resp[p].success
    /\ \E s, t \in Sessions :
          /\ sessions[s].userId # 0 /\ sessions[t].userId # 0
          /\ sessions[s].userId # sessions[t].userId

\* C28: a registration answered 400, by the validation or by the username
\* pre-check, and a login answered 400 or 401 change neither users nor
\* user_achievements nor the stored session of the request, whether or not
\* that session identifies a user.
C28_RejectionsChangeNothing ==
    [][\A p \in Procs :
          /\ (pc[p] = "idle" /\ pc'[p] = "idle" /\ nreq' # nreq
                /\ resp'[p].kind = "register")
             => \A s \in Sessions : \A body \in RegisterBodies :
                   RegisterStart(p, s, body)
                   => /\ resp'[p].status = 400
                      /\ users' = users
                      /\ user_achievements' = user_achievements
                      /\ sessions' = sessions
          /\ (pc[p] = "idle" /\ pc'[p] = "idle" /\ nreq' # nreq
                /\ resp'[p].kind = "login")
             => \A s \in Sessions : \A body \in LoginBodies :
                   LoginStart(p, s, body)
                   => /\ resp'[p].status = 400
                      /\ users' = users
                      /\ user_achievements' = user_achievements
                      /\ sessions' = sessions
          /\ (pc[p] \in {"reg_getUser", "login_verify"} /\ pc'[p] = "idle")
             => /\ resp'[p].status \in {400, 401}
                /\ users' = users
                /\ user_achievements' = user_achievements
                /\ sessions' = sessions]_vars

\* a login was refused on a session that identified a user, and a session
\* still identifies one
C28_Witness ==
    /\ \E p \in Procs :
          /\ resp[p].kind = "login" /\ resp[p].status = 401
          /\ resp[p].bound
    /\ \E s \in Sessions : sessions[s].userId # 0

\* C29: the INSERT of an unlock leaves every row of every other user, the
\* users table and the achievements table as they were, and the steps of
\* the call before it change no table.
C29_UnlockTouchesOwnRows ==
    [][\A p \in Procs :
          /\ (pc[p] = "ua_insert" /\ pc'[p] # "ua_insert")
             => /\ \A u \in 1..Len(users) : \A i \in 1..Len(achievements) :
                      u # loc[p].userId
                      => CopiesIn(UaRow(u, achievements[i].id),
                                  user_achievements')
                         = CopiesIn(UaRow(u, achievements[i].id),
                                    user_achievements)
                /\ users' = users
                /\ achievements' = achievements
          /\ (pc[p] \in {"ua_find", "ua_check"} /\ pc'[p] # pc[p])
             => /\ user_achievements' = user_achievements
                /\ users' = users
                /\ achievements' = achievements]_vars

\* the second user unlocked an achievement that the first user does not
\* hold, beside the first user's own row
C29_Witness ==
    /\ Len(users) = 2
    /\ \E p \in Procs :
          /\ resp[p].kind = "unlock" /\ resp[p].unlock = "true"
          /\ CopiesIn(UaRow(2, resp[p].achievementId), user_achievements) = 1
          /\ CopiesIn(UaRow(1, resp[p].achievementId), user_achievements) = 0
    /\ \E i \in 1..Len(achievements) :
          CopiesIn(UaRow(1, achievements[i].id), user_achievements) = 1

====
